---- MODULE Spec2Model ----
(***************************************************************************)
(* Model of the CEF codec of package cefevent (pcktdmp/cef).               *)
(*                                                                         *)
(* A Go string is a sequence of one-character strings; a Go                *)
(* map[string]string is a function from a finite set of such sequences.    *)
(* The state is one CefEvent (the receiver the methods are called on), the *)
(* result of the last call, the result of the call before it, the shared   *)
(* logger destination and what was written to the two standard streams.    *)
(* A nil map and an empty map are not told apart. A Go map is a reference: *)
(* the map objects are kept apart from the record, whose Extensions are    *)
(* the entries of the object it refers to.                                 *)
(*                                                                         *)
(* Spec is a record built by the caller with its methods Validate, String, *)
(* Build and Log, and Read of the line that String has just returned;      *)
(* SpecRead is Read of a line from outside, and String after it;           *)
(* SpecCycle is a line read, encoded, read again and encoded again;        *)
(* SpecLog is two goroutines that call Log() on two records;               *)
(* SpecGenerate is the older codec with a string Version and Generate();   *)
(* SpecEscape is the two escape functions applied to strings on their own, *)
(* and escapeEventData on a map built from such a string.                  *)
(***************************************************************************)
EXTENDS Integers, Sequences, FiniteSets, TLC

VARIABLES
    event,      \* the receiver
    pre,        \* the receiver as it was when the last call was made
    op,         \* the method called last
    ret,        \* what the last call returned
    prev,       \* the call before the last one and what it returned
    calls,      \* the number of calls made
    logOutput,  \* the destination of the standard logger
    stdout,     \* what was written to standard output
    stderr,     \* what was written to standard error
    lines,      \* the lines the caller has at hand to pass to Read
    procs,      \* the goroutines that call Log() at the same time
    heap,       \* the map objects, and the one the receiver refers to
    escFn,      \* the escape function applied on its own
    escIn,      \* its input
    escOut      \* its output

vars == <<event, pre, op, ret, prev, calls, logOutput, stdout, stderr, lines,
          procs, heap, escFn, escIn, escOut>>

codecVars ==
    <<event, pre, op, ret, prev, calls, logOutput, stdout, stderr, lines,
      procs, heap>>

escVars == <<escFn, escIn, escOut>>

-----------------------------------------------------------------------------
(* Bounds of the model.                                                    *)

\* longest header string, extension key or extension value of the initial record
MaxLen == 1

\* number of entries of the extension map of the initial record
MaxExt == 2

\* largest Version of the initial record
MaxVersion == 1

\* number of method calls made on the record
MaxCalls == 2

\* longest input handed to the two escape functions on their own
MaxEscLen == 3

\* the longest version segment of a line given to Read
MaxDigits == 2

\* the largest number of segments of a line given to Read
MaxSegments == 9

\* the largest number of tokens in the extension segment of such a line
MaxTokens == 2

\* the number of cycles of Read and String on one line
MaxCycles == 2

-----------------------------------------------------------------------------
(* Characters and strings.                                                 *)

BS == "\\"

PIPE == "|"

NL == "\n"

EQ == "="

SP == " "

\* the characters of the fields of the initial record
Chars == {"a", BS, PIPE, NL, EQ, SP}

\* the characters of the inputs of the escape functions
EscChars == {"a", "n", BS, PIPE, NL, EQ}

\* the byte value of a character (Go compares strings byte by byte)
Byte(c) ==
    CASE c = NL -> 10
      [] c = SP -> 32
      [] c = "-" -> 45
      [] c = "0" -> 48
      [] c = "1" -> 49
      [] c = "2" -> 50
      [] c = "3" -> 51
      [] c = "4" -> 52
      [] c = "5" -> 53
      [] c = "6" -> 54
      [] c = "7" -> 55
      [] c = "8" -> 56
      [] c = "9" -> 57
      [] c = ":" -> 58
      [] c = EQ -> 61
      [] c = "C" -> 67
      [] c = "E" -> 69
      [] c = "F" -> 70
      [] c = BS -> 92
      [] c = "a" -> 97
      [] c = "n" -> 110
      [] c = PIPE -> 124

\* all strings over cs of length at most n
StrsUpTo(cs, n) == UNION {[1..k -> cs] : k \in 0..n}

\* Go's s < t on strings
RECURSIVE StrLess(_, _)
StrLess(s, t) ==
    IF t = <<>> THEN FALSE
    ELSE IF s = <<>> THEN TRUE
    ELSE IF Byte(Head(s)) < Byte(Head(t)) THEN TRUE
    ELSE IF Byte(Head(s)) > Byte(Head(t)) THEN FALSE
    ELSE StrLess(Tail(s), Tail(t))

\* strings.HasPrefix
HasPrefix(s, p) == Len(s) >= Len(p) /\ SubSeq(s, 1, Len(p)) = p

\* unicode.IsSpace, on the characters of the model
IsSpace(c) == c \in {SP, NL}

RECURSIVE TrimLeftSpace(_)
TrimLeftSpace(s) ==
    IF s # <<>> /\ IsSpace(Head(s)) THEN TrimLeftSpace(Tail(s)) ELSE s

RECURSIVE TrimRightSpace(_)
TrimRightSpace(s) ==
    IF s # <<>> /\ IsSpace(s[Len(s)])
    THEN TrimRightSpace(SubSeq(s, 1, Len(s) - 1))
    ELSE s

\* strings.TrimSpace: all leading and trailing white space is removed
TrimSpace(s) == TrimRightSpace(TrimLeftSpace(s))

Digits == <<"0", "1", "2", "3", "4", "5", "6", "7", "8", "9">>

RECURSIVE NatDigits(_)
NatDigits(n) ==
    IF n < 10 THEN <<Digits[n + 1]>>
    ELSE NatDigits(n \div 10) \o <<Digits[(n % 10) + 1]>>

\* fmt's %v of an int: decimal, with a minus sign when negative
FormatInt(n) == IF n < 0 THEN <<"-">> \o NatDigits(-n) ELSE NatDigits(n)

-----------------------------------------------------------------------------
(* The escape functions.                                                   *)

\* the first pair of oldnew (old1, new1, old2, new2, ...) whose old string
\* starts s, or 0: a Replacer compares the old strings in argument order
FirstMatch(oldnew, s) ==
    LET hits == {i \in 1..(Len(oldnew) \div 2) : HasPrefix(s, oldnew[2 * i - 1])}
    IN IF hits = {} THEN 0 ELSE CHOOSE i \in hits : \A j \in hits : i <= j

\* strings.Replacer.Replace: one pass from left to right over the input,
\* matches do not overlap and replaced text is not looked at again
RECURSIVE Replace(_, _)
Replace(oldnew, s) ==
    IF s = <<>> THEN <<>>
    ELSE LET i == FirstMatch(oldnew, s)
         IN IF i = 0
            THEN <<Head(s)>> \o Replace(oldnew, Tail(s))
            ELSE oldnew[2 * i]
                 \o Replace(oldnew, SubSeq(s, Len(oldnew[2 * i - 1]) + 1, Len(s)))

\* strings.ReplaceAll(s, <<old>>, new) for a one-character old
RECURSIVE ReplaceAll(_, _, _)
ReplaceAll(s, old, new) ==
    IF s = <<>> THEN <<>>
    ELSE (IF Head(s) = old THEN new ELSE <<Head(s)>>)
         \o ReplaceAll(Tail(s), old, new)

\* cefEscapeField with the replacements made one after the other, the pipe
\* before the backslash
cefEscapeFieldSequential(field) ==
    ReplaceAll(ReplaceAll(ReplaceAll(field, PIPE, <<BS, PIPE>>),
                          BS, <<BS, BS>>),
               NL, <<BS, "n">>)

\* cefEscapeField without the pair for the pipe
cefEscapeFieldNoPipe(field) ==
    Replace(<< <<BS>>, <<BS, BS>>,
               <<NL>>, <<BS, "n">> >>, field)

cefEscapeField(field) ==
    Replace(<< <<BS>>, <<BS, BS>>,
               <<PIPE>>, <<BS, PIPE>>,
               <<NL>>, <<BS, "n">> >>, field)

\* cefEscapeExtension that escapes the pipe as cefEscapeField does
cefEscapeExtensionPipe(field) ==
    Replace(<< <<BS>>, <<BS, BS>>,
               <<PIPE>>, <<BS, PIPE>>,
               <<NL>>, <<BS, "n">>,
               <<EQ>>, <<BS, EQ>> >>, field)

\* cefEscapeExtension that leaves the backslash as it is
cefEscapeExtensionNoBackslash(field) ==
    Replace(<< <<NL>>, <<BS, "n">>,
               <<EQ>>, <<BS, EQ>> >>, field)

cefEscapeExtension(field) ==
    Replace(<< <<BS>>, <<BS, BS>>,
               <<NL>>, <<BS, "n">>,
               <<EQ>>, <<BS, EQ>> >>, field)

-----------------------------------------------------------------------------
(* The record type and its methods.                                        *)

\* error values: nil, and the messages of the errors the methods create
nil == "<nil>"

ErrMandatory == "not all mandatory CEF fields are set"

ErrLog == "unable to create and thereby log the CEF message"

\* the six string fields of the header, in the order of the line
HeaderNames ==
    <<"DeviceVendor", "DeviceProduct", "DeviceVersion",
      "DeviceEventClassId", "Name", "Severity">>

\* a map without entries
EmptyMap == [k \in {} |-> <<>>]

\* m[k] = v of a Go map
MapPut(m, k, v) == [x \in (DOMAIN m) \cup {k} |-> IF x = k THEN v ELSE m[x]]

\* CefEvent{}
ZeroEvent ==
    [Version |-> 0, DeviceVendor |-> <<>>, DeviceProduct |-> <<>>,
     DeviceVersion |-> <<>>, DeviceEventClassId |-> <<>>, Name |-> <<>>,
     Severity |-> <<>>, Extensions |-> EmptyMap]

\* the orders in which a range loop may visit the keys of map m
IterOrders(m) ==
    {o \in [1..Cardinality(DOMAIN m) -> DOMAIN m] :
        \A i, j \in DOMAIN o : i # j => o[i] # o[j]}

\* escapedExtensions after the range loop has visited the keys in this order
RECURSIVE EscapeInto(_, _, _)
EscapeInto(escaped, ext, order) ==
    IF order = <<>> THEN escaped
    ELSE EscapeInto(MapPut(escaped,
                           cefEscapeExtension(Head(order)),
                           cefEscapeExtension(ext[Head(order)])),
                    ext, Tail(order))

\* escapeEventData that escapes the extensions only
escapeEventDataExtensions(ev, order) ==
    [ev EXCEPT !.Extensions = EscapeInto(EmptyMap, ev.Extensions, order)]

\* the receiver after escapeEventData
escapeEventData(ev, order) ==
    [Version |-> ev.Version,
     DeviceVendor |-> cefEscapeField(ev.DeviceVendor),
     DeviceProduct |-> cefEscapeField(ev.DeviceProduct),
     DeviceVersion |-> cefEscapeField(ev.DeviceVersion),
     DeviceEventClassId |-> cefEscapeField(ev.DeviceEventClassId),
     Name |-> cefEscapeField(ev.Name),
     Severity |-> cefEscapeField(ev.Severity),
     Extensions |-> EscapeInto(EmptyMap, ev.Extensions, order)]

\* the mandatory fields without the last one
mandatoryFieldsShort ==
    <<"Version", "DeviceVendor", "DeviceProduct", "DeviceVersion",
      "DeviceEventClassId", "Name">>

mandatoryFields ==
    <<"Version", "DeviceVendor", "DeviceProduct", "DeviceVersion",
      "DeviceEventClassId", "Name", "Severity">>

\* a field read as a string that is empty for the zero value of its type
ReflectStringZero(ev, field) ==
    IF field = "Version"
    THEN (IF ev.Version = 0 THEN <<>> ELSE FormatInt(ev.Version))
    ELSE ev[field]

\* reflect.Value.String(): the string itself for a string field, and the
\* text "<int Value>" for the int field Version, whatever its value
ReflectString(ev, field) ==
    IF field = "Version" THEN <<"<int Value>">> ELSE ev[field]

\* Validate: the error it returns
Validate(ev) ==
    IF \E i \in DOMAIN mandatoryFields :
           ReflectString(ev, mandatoryFields[i]) = <<>>
    THEN ErrMandatory
    ELSE nil

\* sort.Strings left out: the keys stay in the order of the range loop
SortStringsNone(keys) == keys

\* keys with k put before the first element that is not smaller than k
RECURSIVE Insert(_, _)
Insert(sorted, k) ==
    IF sorted = <<>> THEN <<k>>
    ELSE IF StrLess(Head(sorted), k)
         THEN <<Head(sorted)>> \o Insert(Tail(sorted), k)
         ELSE <<k>> \o sorted

\* sort.Strings: the keys in ascending byte order
RECURSIVE SortStrings(_)
SortStrings(keys) ==
    IF keys = <<>> THEN <<>>
    ELSE Insert(SortStrings(Tail(keys)), Head(keys))

\* the strings.Builder after the loop over the sorted keys: "%s=%s " each
RECURSIVE WriteExtensions(_, _)
WriteExtensions(ext, keys) ==
    IF keys = <<>> THEN <<>>
    ELSE Head(keys) \o <<EQ>> \o ext[Head(keys)] \o <<SP>>
         \o WriteExtensions(ext, Tail(keys))

\* the format without the last verb: the line ends after the severity
SprintfCefShort(ev, extensionString) ==
    <<"C", "E", "F", ":">> \o FormatInt(ev.Version)
    \o <<PIPE>> \o ev.DeviceVendor \o <<PIPE>> \o ev.DeviceProduct
    \o <<PIPE>> \o ev.DeviceVersion \o <<PIPE>> \o ev.DeviceEventClassId
    \o <<PIPE>> \o ev.Name \o <<PIPE>> \o ev.Severity
    \o (IF extensionString = <<>> THEN <<>> ELSE <<PIPE>> \o extensionString)

\* fmt.Sprintf("CEF:%v|%v|%v|%v|%v|%v|%v|%v", ...)
SprintfCef(ev, extensionString) ==
    <<"C", "E", "F", ":">> \o FormatInt(ev.Version)
    \o <<PIPE>> \o ev.DeviceVendor \o <<PIPE>> \o ev.DeviceProduct
    \o <<PIPE>> \o ev.DeviceVersion \o <<PIPE>> \o ev.DeviceEventClassId
    \o <<PIPE>> \o ev.Name \o <<PIPE>> \o ev.Severity
    \o <<PIPE>> \o extensionString

\* the result of a call: the string, record and error returned, or the
\* run-time panic that ended it; of String and Log also the line that was
\* encoded (encoded), the order in which the range loop of String visited
\* the keys (order), the order in which the keys were written (keys) and the
\* extension string (ext); of Read the line it was given (line) and the
\* extensions it parsed, before they are escaped (parsed)
NoResult ==
    [str |-> <<>>, rec |-> ZeroEvent, err |-> nil, panic |-> FALSE,
     encoded |-> <<>>, order |-> <<>>, keys |-> <<>>, ext |-> <<>>,
     line |-> <<>>, parsed |-> EmptyMap]

\* String on receiver ev: the receiver afterwards and the result; order1 is
\* the iteration order of escapeEventData's loop, order2 that of String's
String(ev, order1, order2) ==
    IF Validate(ev) # nil
    THEN [event |-> ev, ret |-> [NoResult EXCEPT !.err = ErrMandatory]]
    ELSE LET escaped == escapeEventData(ev, order1)
             sortedExtensions == SortStrings(order2)
             p == WriteExtensions(escaped.Extensions, sortedExtensions)
             extensionString == TrimSpace(p)
             eventCef == SprintfCef(escaped, extensionString)
         IN [event |-> escaped,
             ret |-> [NoResult EXCEPT !.str = eventCef,
                                      !.encoded = eventCef,
                                      !.order = order2,
                                      !.keys = sortedExtensions,
                                      !.ext = extensionString]]

\* Build that escapes the receiver before it validates it
BuildEscapesFirst(ev, order) ==
    LET escaped == escapeEventData(ev, order)
    IN IF Validate(escaped) # nil
       THEN [event |-> escaped, ret |-> [NoResult EXCEPT !.err = ErrMandatory]]
       ELSE [event |-> escaped, ret |-> [NoResult EXCEPT !.rec = escaped]]

\* Build on receiver ev
Build(ev, order) ==
    IF Validate(ev) # nil
    THEN [event |-> ev, ret |-> [NoResult EXCEPT !.err = ErrMandatory]]
    ELSE LET escaped == escapeEventData(ev, order)
         IN [event |-> escaped, ret |-> [NoResult EXCEPT !.rec = escaped]]

-----------------------------------------------------------------------------
(* Read.                                                                   *)

ErrNotCef == "not a valid CEF message"

ErrSyntax == "strconv.Atoi: invalid syntax"

CefPrefix == <<"C", "E", "F", ":">>

\* every line passes for a CEF message
HasCefPrefixAny(line) == TRUE

\* strings.HasPrefix(eventLine, "CEF:")
HasCefPrefix(line) == HasPrefix(line, CefPrefix)

\* strings.TrimPrefix(eventLine, "CEF:")
TrimCefPrefix(line) ==
    IF HasPrefix(line, CefPrefix)
    THEN SubSeq(line, Len(CefPrefix) + 1, Len(line))
    ELSE line

\* the pieces joined by sep
RECURSIVE Join(_, _)
Join(pieces, sep) ==
    IF pieces = <<>> THEN <<>>
    ELSE IF Len(pieces) = 1 THEN pieces[1]
    ELSE pieces[1] \o sep \o Join(Tail(pieces), sep)

\* the places of s that hold the character sep
Places(s, sep) == {i \in DOMAIN s : s[i] = sep}

\* the smallest member of a non-empty set of numbers
Min(S) == CHOOSE i \in S : \A j \in S : i <= j

\* strings.Split(s, sep) for a one-character sep
RECURSIVE Split(_, _)
Split(s, sep) ==
    IF Places(s, sep) = {} THEN <<s>>
    ELSE LET i == Min(Places(s, sep))
         IN <<SubSeq(s, 1, i - 1)>> \o Split(SubSeq(s, i + 1, Len(s)), sep)

\* strings.SplitN(s, sep, 2) for a one-character sep: cut at the first sep
SplitN(s, sep) ==
    IF Places(s, sep) = {} THEN <<s>>
    ELSE LET i == Min(Places(s, sep))
         IN <<SubSeq(s, 1, i - 1), SubSeq(s, i + 1, Len(s))>>

\* the value of a decimal digit, or -1 for another character
DigitValue(c) ==
    IF \E d \in DOMAIN Digits : Digits[d] = c
    THEN (CHOOSE d \in DOMAIN Digits : Digits[d] = c) - 1
    ELSE -1

\* the number that the digits of s write (s holds digits only)
RECURSIVE DigitsValue(_)
DigitsValue(s) ==
    IF s = <<>> THEN 0
    ELSE 10 * DigitsValue(SubSeq(s, 1, Len(s) - 1)) + DigitValue(s[Len(s)])

\* Atoi that takes every character that is no digit for a zero
AtoiLenient(s) ==
    LET signed == s # <<>> /\ Head(s) \in {"-", "+"}
        digits == IF signed THEN Tail(s) ELSE s
        zeroed == [i \in DOMAIN digits |->
                      IF DigitValue(digits[i]) < 0 THEN "0" ELSE digits[i]]
    IN [val |-> IF signed /\ Head(s) = "-"
                THEN -DigitsValue(zeroed) ELSE DigitsValue(zeroed),
        err |-> nil]

\* Atoi that drops the sign
AtoiUnsigned(s) ==
    LET signed == s # <<>> /\ Head(s) \in {"-", "+"}
        digits == IF signed THEN Tail(s) ELSE s
    IN IF digits = <<>> \/ \E i \in DOMAIN digits : DigitValue(digits[i]) < 0
       THEN [val |-> 0, err |-> ErrSyntax]
       ELSE [val |-> DigitsValue(digits), err |-> nil]

\* strconv.Atoi: an optional sign and then one decimal digit or more (the
\* lines of the model are too short for a number out of the range of int)
Atoi(s) ==
    LET signed == s # <<>> /\ Head(s) \in {"-", "+"}
        digits == IF signed THEN Tail(s) ELSE s
    IN IF digits = <<>> \/ \E i \in DOMAIN digits : DigitValue(digits[i]) < 0
       THEN [val |-> 0, err |-> ErrSyntax]
       ELSE [val |-> IF signed /\ Head(s) = "-"
                     THEN -DigitsValue(digits) ELSE DigitsValue(digits),
             err |-> nil]

\* parsedExtensions in which the first token of a key wins
RECURSIVE ParseExtensionsFirst(_, _)
ParseExtensionsFirst(parsed, extensions) ==
    IF extensions = <<>> THEN parsed
    ELSE LET kv == SplitN(Head(extensions), EQ)
         IN ParseExtensionsFirst(
                IF Len(kv) = 2 /\ kv[1] \notin DOMAIN parsed
                THEN MapPut(parsed, kv[1], kv[2]) ELSE parsed,
                Tail(extensions))

\* parsedExtensions after the loop over the tokens of the extension segment
RECURSIVE ParseExtensions(_, _)
ParseExtensions(parsed, extensions) ==
    IF extensions = <<>> THEN parsed
    ELSE LET kv == SplitN(Head(extensions), EQ)
         IN ParseExtensions(
                IF Len(kv) = 2 THEN MapPut(parsed, kv[1], kv[2]) ELSE parsed,
                Tail(extensions))

\* the receiver when Read panics on a line of fewer than eight segments:
\* with seven the index 7 is out of range before a header string is assigned,
\* with fewer the header strings are assigned until the index is out of range
ReadPanicked(ev, cefVersion, eventSlashed) ==
    LET n == Len(eventSlashed)
        set(e, i) ==
            IF n < Len(HeaderNames) + 1 /\ i + 1 <= n
            THEN [e EXCEPT ![HeaderNames[i]] = eventSlashed[i + 1]] ELSE e
    IN set(set(set(set(set(set([ev EXCEPT !.Version = cefVersion],
                                   1), 2), 3), 4), 5), 6)

\* the assignments that leave the Name of the receiver as it is
AssignedKeepsName(ev, cefVersion, eventSlashed, parsedExtensions) ==
    [ev EXCEPT !.Version = cefVersion,
               !.DeviceVendor = eventSlashed[2],
               !.DeviceProduct = eventSlashed[3],
               !.DeviceVersion = eventSlashed[4],
               !.DeviceEventClassId = eventSlashed[5],
               !.Severity = eventSlashed[7],
               !.Extensions = parsedExtensions]

\* the receiver after the assignments of Read from a line of eight segments
\* or more
Assigned(ev, cefVersion, eventSlashed, parsedExtensions) ==
    [ev EXCEPT !.Version = cefVersion,
               !.DeviceVendor = eventSlashed[2],
               !.DeviceProduct = eventSlashed[3],
               !.DeviceVersion = eventSlashed[4],
               !.DeviceEventClassId = eventSlashed[5],
               !.Name = eventSlashed[6],
               !.Severity = eventSlashed[7],
               !.Extensions = parsedExtensions]

\* Read on receiver ev: the receiver afterwards and the result; order is the
\* iteration order of escapeEventData's loop
Read(ev, eventLine, order) ==
    IF ~HasCefPrefix(eventLine)
    THEN [event |-> ev,
          ret |-> [NoResult EXCEPT !.err = ErrNotCef, !.line = eventLine]]
    ELSE LET eventSlashed == Split(TrimCefPrefix(eventLine), PIPE)
             version == Atoi(eventSlashed[1])
         IN IF version.err # nil
            THEN [event |-> ev,
                  ret |-> [NoResult EXCEPT !.err = version.err,
                                           !.line = eventLine]]
            ELSE IF Len(eventSlashed) < Len(HeaderNames) + 2
            THEN [event |-> ReadPanicked(ev, version.val, eventSlashed),
                  ret |-> [NoResult EXCEPT !.panic = TRUE, !.line = eventLine]]
            ELSE LET parsedExtensions ==
                         ParseExtensions(EmptyMap, Split(eventSlashed[8], SP))
                     assigned ==
                         Assigned(ev, version.val, eventSlashed,
                                  parsedExtensions)
                     escaped == escapeEventData(assigned, order)
                 IN IF Validate(escaped) # nil
                    THEN [event |-> escaped,
                          ret |-> [NoResult EXCEPT !.err = ErrMandatory,
                                                   !.line = eventLine,
                                                   !.parsed = parsedExtensions]]
                    ELSE [event |-> escaped,
                          ret |-> [NoResult EXCEPT !.rec = escaped,
                                                   !.line = eventLine,
                                                   !.parsed = parsedExtensions]]

\* the iteration orders of the loop of escapeEventData within Read: the keys
\* of the extensions that Read parses from the line
ReadOrders(eventLine) ==
    LET eventSlashed == Split(TrimCefPrefix(eventLine), PIPE)
    IN IF ~HasCefPrefix(eventLine) \/ Len(eventSlashed) < Len(HeaderNames) + 2
       THEN {<<>>}
       ELSE IterOrders(ParseExtensions(EmptyMap, Split(eventSlashed[8], SP)))

-----------------------------------------------------------------------------
(* Log.                                                                    *)

\* what log.Println writes for a message: the date and time header of the
\* standard logger, the message and a newline
LogLine(msg) == <<"<date time> ">> \o msg \o <<NL>>

LogErrMsg == <<ErrLog>>

\* Log that reports no error when String() fails
LogNoError(ev, order1, order2) ==
    LET r == String(ev, order1, order2)
    IN IF r.ret.err # nil
       THEN [event |-> r.event, output |-> "Stderr",
             written |-> LogLine(LogErrMsg), ret |-> NoResult]
       ELSE [event |-> r.event, output |-> "Stdout",
             written |-> LogLine(r.ret.str),
             ret |-> [NoResult EXCEPT !.encoded = r.ret.str]]

\* Log on receiver ev: the receiver afterwards, the stream the logger is
\* switched to, what it writes there, and the result
Log(ev, order1, order2) ==
    LET r == String(ev, order1, order2)
    IN IF r.ret.err # nil
       THEN [event |-> r.event, output |-> "Stderr",
             written |-> LogLine(LogErrMsg),
             ret |-> [NoResult EXCEPT !.err = ErrLog]]
       ELSE [event |-> r.event, output |-> "Stdout",
             written |-> LogLine(r.ret.str),
             ret |-> [NoResult EXCEPT !.encoded = r.ret.str]]

-----------------------------------------------------------------------------
(* The initial record.                                                     *)

Strs == StrsUpTo(Chars, MaxLen)

Versions == (-1)..MaxVersion

\* the record of the tests with every string shortened to one plain character
PlainEvent ==
    [Version |-> 0, DeviceVendor |-> <<"a">>, DeviceProduct |-> <<"a">>,
     DeviceVersion |-> <<"a">>, DeviceEventClassId |-> <<"a">>,
     Name |-> <<"a">>, Severity |-> <<"a">>, Extensions |-> EmptyMap]

\* the plain string of n characters
PlainStr(n) == [i \in 1..n |-> "a"]

\* the map of n plain entries: a=a, aa=a, ...
PlainMap(n) == [k \in {PlainStr(i) : i \in 1..n} |-> <<"a">>]

HeaderNameSet == {HeaderNames[i] : i \in DOMAIN HeaderNames}

\* one header string is any string, with no extension or a plain one
HeaderOdd ==
    {[PlainEvent EXCEPT ![f] = s, !.Extensions = m] :
        f \in HeaderNameSet, s \in Strs, m \in {EmptyMap, PlainMap(1)}}

\* one extension key is any string, next to plain entries
KeyOdd ==
    {[PlainEvent EXCEPT !.Extensions = MapPut(PlainMap(n), k, <<"a">>)] :
        k \in Strs, n \in 0..(MaxExt - 1)}

\* the value of the first of the plain keys is any string
ValueOdd ==
    {[PlainEvent EXCEPT !.Extensions = MapPut(PlainMap(n), <<"a">>, v)] :
        v \in Strs, n \in 1..MaxExt}

\* the only extension has any string as its key and as its value
EntryOdd ==
    {[PlainEvent EXCEPT !.Extensions = MapPut(EmptyMap, s, s)] : s \in Strs}

\* any Version, with plain strings
VersionOdd ==
    {[PlainEvent EXCEPT !.Version = v, !.Extensions = PlainMap(n)] :
        v \in Versions, n \in 0..MaxExt}

\* the severity is missing, and the vendor and the only extension are any
\* string
InvalidOdd ==
    {[PlainEvent EXCEPT !.Severity = <<>>, !.DeviceVendor = s,
                        !.Extensions = MapPut(EmptyMap, s, s)] : s \in Strs}

\* the records the calls start from: the plain record with one place changed
InitEvents ==
    HeaderOdd \cup KeyOdd \cup ValueOdd \cup EntryOdd \cup VersionOdd
    \cup InvalidOdd

Init ==
    /\ event \in InitEvents
    /\ pre = event
    /\ op = "none"
    /\ ret = NoResult
    /\ prev = [op |-> "none", err |-> nil, encoded |-> <<>>, pre |-> event,
               line |-> <<>>]
    /\ calls = 0
    /\ logOutput = "Stderr"
    /\ stdout = <<>>
    /\ stderr = <<>>
    /\ lines = {}
    /\ procs = <<>>
    /\ heap = [objects |-> <<event.Extensions>>, ref |-> 1]
    /\ escFn = "none"
    /\ escIn = <<>>
    /\ escOut = <<>>

-----------------------------------------------------------------------------
(* The calls.                                                              *)

\* the map objects when the Extensions of the receiver are overwritten in
\* the object the receiver has
ReboundInPlace(h, m) ==
    [objects |-> [h.objects EXCEPT ![h.ref] = m], ref |-> h.ref]

\* the map objects after make() gave a new object, the entries m were stored
\* in it and the Extensions field of the receiver was set to it
Rebound(h, m) ==
    [objects |-> Append(h.objects, m), ref |-> Len(h.objects) + 1]

\* the map objects after make() gave a new object that no field was set to
Made(h, m) == [h EXCEPT !.objects = Append(h.objects, m)]

\* the map objects after String(), Build() or Log() with result r:
\* escapeEventData runs when the validation has passed
HeapAfterEncode(h, r) ==
    IF r.ret.err = nil THEN Rebound(h, r.event.Extensions) ELSE h

\* the map objects after Read() with result r: parsedExtensions is made
\* once the version is parsed, the receiver is set to it when the line has
\* eight segments, and escapeEventData runs then
HeapAfterRead(h, r) ==
    IF r.ret.panic THEN Made(h, EmptyMap)
    ELSE IF r.ret.err \in {nil, ErrMandatory}
    THEN Rebound(Rebound(h, r.ret.parsed), r.event.Extensions)
    ELSE h

\* what every call records: the receiver before it, and the call before it
\* with the receiver that call started from; no call follows a panic
CalledWithin(name, most) ==
    /\ calls < most
    /\ ~ret.panic
    /\ calls' = calls + 1
    /\ pre' = event
    /\ op' = name
    /\ prev' = [op |-> op, err |-> ret.err, encoded |-> ret.encoded,
                pre |-> pre, line |-> ret.line]
    /\ UNCHANGED <<lines, procs, escVars>>

Called(name) == CalledWithin(name, MaxCalls)

ValidateCall ==
    /\ Called("Validate")
    /\ ret' = [NoResult EXCEPT !.err = Validate(event)]
    /\ UNCHANGED <<event, logOutput, stdout, stderr, heap>>

\* String() on the receiver
StringStep ==
    /\ \E order1 \in IterOrders(event.Extensions) :
         \E order2 \in IterOrders(escapeEventData(event, order1).Extensions) :
            \E r \in {String(event, order1, order2)} :
               /\ event' = r.event
               /\ ret' = r.ret
               /\ heap' = HeapAfterEncode(heap, r)
    /\ UNCHANGED <<logOutput, stdout, stderr>>

StringCall == Called("String") /\ StringStep

BuildCall ==
    /\ Called("Build")
    /\ \E order \in IterOrders(event.Extensions) :
            \E r \in {Build(event, order)} :
               /\ event' = r.event
               /\ ret' = r.ret
               /\ heap' = HeapAfterEncode(heap, r)
    /\ UNCHANGED <<logOutput, stdout, stderr>>

LogCall ==
    /\ Called("Log")
    /\ \E order1 \in IterOrders(event.Extensions) :
         \E order2 \in IterOrders(escapeEventData(event, order1).Extensions) :
            \E r \in {Log(event, order1, order2)} :
               /\ event' = r.event
               /\ ret' = r.ret
               /\ heap' = HeapAfterEncode(heap, r)
               /\ logOutput' = r.output
               /\ stdout' = IF r.output = "Stdout"
                            THEN Append(stdout, r.written) ELSE stdout
               /\ stderr' = IF r.output = "Stderr"
                            THEN Append(stderr, r.written) ELSE stderr

\* the lines Read can be given: the lines at hand and the line that the
\* String() just before has returned
ReadableLines ==
    lines \cup (IF op = "String" /\ ret.err = nil THEN {ret.str} ELSE {})

\* Read of one of the given lines on the receiver
ReadStep(given) ==
    /\ \E eventLine \in given :
         \E order \in ReadOrders(eventLine) :
            \E r \in {Read(event, eventLine, order)} :
               /\ event' = r.event
               /\ ret' = r.ret
               /\ heap' = HeapAfterRead(heap, r)
    /\ UNCHANGED <<logOutput, stdout, stderr>>

ReadCall == Called("Read") /\ ReadStep(ReadableLines)

Next == ValidateCall \/ StringCall \/ BuildCall \/ LogCall \/ ReadCall

Spec == Init /\ [][Next]_vars

-----------------------------------------------------------------------------
(* Read of a line from outside.                                            *)

\* the segments of the line of the tests, every string shortened
PlainSegments ==
    <<<<"0">>, <<"a">>, <<"a">>, <<"a">>, <<"a">>, <<"a">>, <<"a">>,
      <<"a", EQ, "a">>>>

\* the line with the given segments
CefLine(segments) == CefPrefix \o Join(segments, <<PIPE>>)

\* the line starts with something else than CEF:, or is cut short
PrefixOdd ==
    {prefix \o body :
        prefix \in {<<>>, <<"a">>, <<"C", "E", "F">>, CefPrefix},
        body \in {<<>>, Join(PlainSegments, <<PIPE>>)}}

VersionSegments == StrsUpTo({"0", "1", "-", "+", "a"}, MaxDigits)

\* the version segment is any short text
VersionSegmentOdd ==
    {CefLine([PlainSegments EXCEPT ![1] = s]) : s \in VersionSegments}

\* one header segment is any string
HeaderSegmentOdd ==
    {CefLine([PlainSegments EXCEPT ![i + 1] = s]) :
        i \in DOMAIN HeaderNames, s \in Strs}

\* the line has fewer or more segments than eight, the last one plain or
\* empty
SegmentCountOdd ==
    {CefLine([i \in 1..n |->
                 IF i = n /\ empty THEN <<>>
                 ELSE IF i <= Len(PlainSegments) THEN PlainSegments[i]
                 ELSE <<"n", EQ, "a">>]) :
        n \in 1..MaxSegments, empty \in BOOLEAN}

TokenParts == {<<>>, <<"a">>, <<"n">>}

\* the tokens of an extension segment: with no =, with one, with two, and
\* with a backslash
Tokens ==
    TokenParts
    \cup {k \o <<EQ>> \o v : k \in TokenParts, v \in TokenParts}
    \cup {<<"a", EQ, "a", EQ, "a">>, <<"a", EQ, BS>>}

TokenSeqs == UNION {[1..n -> Tokens] : n \in 0..MaxTokens}

\* the extension segment is any sequence of tokens with single spaces between
ExtensionSegmentOdd ==
    {CefLine([PlainSegments EXCEPT ![8] = Join(tokens, <<SP>>)]) :
        tokens \in TokenSeqs}

\* the lines Read is given: the plain line with one place changed
InputLines ==
    PrefixOdd \cup VersionSegmentOdd \cup HeaderSegmentOdd
    \cup SegmentCountOdd \cup ExtensionSegmentOdd

\* the receivers of Read: a new record, and one that holds an earlier event
ReadReceivers ==
    {ZeroEvent,
     [PlainEvent EXCEPT !.Version = 1, !.Name = <<"n">>,
                        !.Extensions = PlainMap(1)]}

InitRead ==
    /\ event \in ReadReceivers
    /\ pre = event
    /\ op = "none"
    /\ ret = NoResult
    /\ prev = [op |-> "none", err |-> nil, encoded |-> <<>>, pre |-> event,
               line |-> <<>>]
    /\ calls = 0
    /\ logOutput = "Stderr"
    /\ stdout = <<>>
    /\ stderr = <<>>
    /\ \E eventLine \in InputLines : lines = {eventLine}
    /\ procs = <<>>
    /\ heap = [objects |-> <<event.Extensions>>, ref |-> 1]
    /\ escFn = "none"
    /\ escIn = <<>>
    /\ escOut = <<>>

NextRead == ReadCall \/ StringCall

SpecRead == InitRead /\ [][NextRead]_vars

-----------------------------------------------------------------------------
(* Cycles of Read and String: a line is read, the record is encoded, the   *)
(* line that gives is read again, and so on.                               *)

InitCycle == InitRead /\ event = ZeroEvent

\* Read of the line at hand, or of the line String() has just returned
CycleRead ==
    /\ op \in {"none", "String"}
    /\ op = "String" => ret.err = nil
    /\ CalledWithin("Read", 2 * MaxCycles)
    /\ ReadStep(IF op = "String" THEN {ret.str} ELSE lines)

\* String() on the record Read has just returned
CycleString ==
    /\ op = "Read"
    /\ ret.err = nil
    /\ CalledWithin("String", 2 * MaxCycles)
    /\ StringStep

NextCycle == CycleRead \/ CycleString

SpecCycle == InitCycle /\ [][NextCycle]_vars

-----------------------------------------------------------------------------
(* Log() in two goroutines. The standard logger is shared: log.SetOutput   *)
(* and log.Println each take its lock, so each is one step, and the steps  *)
(* of the two calls interleave.                                            *)

Goroutines == {1, 2}

\* the records that are logged: valid ones, and ones with an empty header
\* string
LogEvents ==
    VersionOdd \cup {[PlainEvent EXCEPT ![f] = <<>>] : f \in HeaderNameSet}

InitLog ==
    /\ event = PlainEvent
    /\ pre = event
    /\ op = "none"
    /\ ret = NoResult
    /\ prev = [op |-> "none", err |-> nil, encoded |-> <<>>, pre |-> event,
               line |-> <<>>]
    /\ calls = 0
    /\ logOutput = "Stderr"
    /\ stdout = <<>>
    /\ stderr = <<>>
    /\ lines = {}
    /\ procs \in [Goroutines ->
                    [pc : {"String"}, event : LogEvents, output : {"none"},
                     written : {<<>>}, err : {nil}]]
    /\ heap = [objects |-> <<event.Extensions>>, ref |-> 1]
    /\ escFn = "none"
    /\ escIn = <<>>
    /\ escOut = <<>>

\* goroutine p calls event.String() and chooses the stream and the message
LogString(p) ==
    /\ procs[p].pc = "String"
    /\ \E order1 \in IterOrders(procs[p].event.Extensions) :
         \E order2 \in IterOrders(
                  escapeEventData(procs[p].event, order1).Extensions) :
            \E r \in {Log(procs[p].event, order1, order2)} :
               procs' = [procs EXCEPT ![p] =
                            [pc |-> "SetOutput", event |-> r.event,
                             output |-> r.output, written |-> r.written,
                             err |-> r.ret.err]]
    /\ UNCHANGED <<event, pre, op, ret, prev, calls, logOutput, stdout,
                   stderr, lines, heap, escVars>>

\* goroutine p calls log.SetOutput
LogSetOutput(p) ==
    /\ procs[p].pc = "SetOutput"
    /\ logOutput' = procs[p].output
    /\ procs' = [procs EXCEPT ![p].pc = "Println"]
    /\ UNCHANGED <<event, pre, op, ret, prev, calls, stdout, stderr, lines,
                   heap, escVars>>

\* goroutine p calls log.Println, which writes to the stream the logger has
\* at that moment, and returns
LogPrintln(p) ==
    /\ procs[p].pc = "Println"
    /\ stdout' = IF logOutput = "Stdout"
                 THEN Append(stdout, procs[p].written) ELSE stdout
    /\ stderr' = IF logOutput = "Stderr"
                 THEN Append(stderr, procs[p].written) ELSE stderr
    /\ procs' = [procs EXCEPT ![p].pc = "done"]
    /\ UNCHANGED <<event, pre, op, ret, prev, calls, logOutput, lines,
                   heap, escVars>>

NextLog ==
    \E p \in Goroutines : LogString(p) \/ LogSetOutput(p) \/ LogPrintln(p)

SpecLog == InitLog /\ [][NextLog]_vars

-----------------------------------------------------------------------------
(* The codec of src/cefevent/cefevent.go, whose Version is a string and    *)
(* whose only method is Generate.                                          *)

ErrNotAllSet == "Not all mandatory CEF fields are set."

\* isSet that does not look at its first argument
isSetButFirst(field) == \A i \in DOMAIN field : i > 1 => field[i] # <<>>

\* isSet(field ...string)
isSet(field) == \A i \in DOMAIN field : field[i] # <<>>

\* the strings.Builder after the range loop over the map in this order
RECURSIVE GenerateExtensions(_, _)
GenerateExtensions(ext, order) ==
    IF order = <<>> THEN <<>>
    ELSE cefEscapeExtension(Head(order)) \o <<EQ>>
         \o cefEscapeExtension(ext[Head(order)]) \o <<SP>>
         \o GenerateExtensions(ext, Tail(order))

\* Generate on receiver ev: the receiver afterwards and the result; order is
\* the iteration order of the range loop
Generate(ev, order) ==
    IF isSet(<<ev.Version, ev.DeviceVendor, ev.DeviceProduct, ev.DeviceVersion,
               ev.DeviceEventClassId, ev.Name, ev.Severity>>)
    THEN LET escaped ==
                 [Version |-> cefEscapeField(ev.Version),
                  DeviceVendor |-> cefEscapeField(ev.DeviceVendor),
                  DeviceProduct |-> cefEscapeField(ev.DeviceProduct),
                  DeviceVersion |-> cefEscapeField(ev.DeviceVersion),
                  DeviceEventClassId |-> cefEscapeField(ev.DeviceEventClassId),
                  Name |-> cefEscapeField(ev.Name),
                  Severity |-> cefEscapeField(ev.Severity),
                  Extensions |-> ev.Extensions]
             extensionString ==
                 TrimSpace(GenerateExtensions(ev.Extensions, order))
             eventCef ==
                 <<"C", "E", "F", ":">> \o escaped.Version
                 \o <<PIPE>> \o escaped.DeviceVendor
                 \o <<PIPE>> \o escaped.DeviceProduct
                 \o <<PIPE>> \o escaped.DeviceVersion
                 \o <<PIPE>> \o escaped.DeviceEventClassId
                 \o <<PIPE>> \o escaped.Name
                 \o <<PIPE>> \o escaped.Severity
                 \o <<PIPE>> \o extensionString
         IN [event |-> escaped,
             ret |-> [NoResult EXCEPT !.str = eventCef, !.encoded = eventCef,
                                      !.order = order,
                                      !.ext = extensionString]]
    ELSE [event |-> ev, ret |-> [NoResult EXCEPT !.err = ErrNotAllSet]]

\* the record of the tests of this codec, every string shortened
PlainStringEvent == [PlainEvent EXCEPT !.Version = <<"0">>]

StringFieldNames ==
    {"Version", "DeviceVendor", "DeviceProduct", "DeviceVersion",
     "DeviceEventClassId", "Name", "Severity"}

\* the records Generate is called on: one of the seven strings is any
\* string, next to plain extensions, or the only extension is any string
GenerateEvents ==
    {[PlainStringEvent EXCEPT ![f] = s, !.Extensions = PlainMap(n)] :
        f \in StringFieldNames, s \in Strs, n \in 0..MaxExt}
    \cup {[PlainStringEvent EXCEPT !.Extensions = MapPut(EmptyMap, s, s)] :
             s \in Strs}

InitGenerate ==
    /\ event \in GenerateEvents
    /\ pre = event
    /\ op = "none"
    /\ ret = NoResult
    /\ prev = [op |-> "none", err |-> nil, encoded |-> <<>>, pre |-> event,
               line |-> <<>>]
    /\ calls = 0
    /\ logOutput = "Stderr"
    /\ stdout = <<>>
    /\ stderr = <<>>
    /\ lines = {}
    /\ procs = <<>>
    /\ heap = [objects |-> <<event.Extensions>>, ref |-> 1]
    /\ escFn = "none"
    /\ escIn = <<>>
    /\ escOut = <<>>

GenerateCall ==
    /\ Called("Generate")
    /\ \E order \in IterOrders(event.Extensions) :
          \E r \in {Generate(event, order)} :
             /\ event' = r.event
             /\ ret' = r.ret
    /\ UNCHANGED <<logOutput, stdout, stderr, heap>>

NextGenerate == GenerateCall

SpecGenerate == InitGenerate /\ [][NextGenerate]_vars

-----------------------------------------------------------------------------
(* The escape functions on their own.                                      *)

EscStrs == StrsUpTo(EscChars, MaxEscLen)

InitEscape ==
    /\ event = PlainEvent
    /\ pre = event
    /\ op = "none"
    /\ ret = NoResult
    /\ prev = [op |-> "none", err |-> nil, encoded |-> <<>>, pre |-> event,
               line |-> <<>>]
    /\ calls = 0
    /\ logOutput = "Stderr"
    /\ stdout = <<>>
    /\ stderr = <<>>
    /\ lines = {}
    /\ procs = <<>>
    /\ heap = [objects |-> <<event.Extensions>>, ref |-> 1]
    /\ escFn = "none"
    /\ escIn \in EscStrs
    /\ escOut = <<>>

EscapeFieldCall ==
    /\ escFn' = "cefEscapeField"
    /\ escOut' = cefEscapeField(escIn)
    /\ UNCHANGED <<escIn, codecVars>>

EscapeExtensionCall ==
    /\ escFn' = "cefEscapeExtension"
    /\ escOut' = cefEscapeExtension(escIn)
    /\ UNCHANGED <<escIn, codecVars>>

\* the plain record with two extensions: the input as a key, and what the
\* input is escaped to as another key
TwoKeys(s) ==
    [PlainEvent EXCEPT
        !.Extensions = MapPut(MapPut(EmptyMap, s, <<"a">>),
                              cefEscapeExtension(s), <<"n">>)]

\* escapeEventData on a record whose keys are the input and its escaped form
EscapeEventDataCall ==
    /\ escFn' = "escapeEventData"
    /\ pre' = TwoKeys(escIn)
    /\ \E order \in IterOrders(TwoKeys(escIn).Extensions) :
          event' = escapeEventData(TwoKeys(escIn), order)
    /\ heap' = Rebound([objects |-> <<TwoKeys(escIn).Extensions>>, ref |-> 1],
                       event'.Extensions)
    /\ UNCHANGED <<op, ret, prev, calls, logOutput, stdout, stderr, lines,
                   procs, escIn, escOut>>

NextEscape == EscapeFieldCall \/ EscapeExtensionCall \/ EscapeEventDataCall

SpecEscape == InitEscape /\ [][NextEscape]_vars

-----------------------------------------------------------------------------
(* What the properties are stated with.                                    *)

Range(s) == {s[i] : i \in DOMAIN s}

\* the last call was a String() that returned a line
StringSucceeded == op = "String" /\ ret.err = nil

\* the text that stands for one character in an escaped header field
FieldSubst(c) ==
    CASE c = BS -> <<BS, BS>>
      [] c = PIPE -> <<BS, PIPE>>
      [] c = NL -> <<BS, "n">>
      [] OTHER -> <<c>>

\* the text that stands for one character in an escaped extension
ExtSubst(c) ==
    CASE c = BS -> <<BS, BS>>
      [] c = NL -> <<BS, "n">>
      [] c = EQ -> <<BS, EQ>>
      [] OTHER -> <<c>>

\* s with every character substituted at once, header rules
RECURSIVE SubstField(_)
SubstField(s) ==
    IF s = <<>> THEN <<>>
    ELSE SubstField(SubSeq(s, 1, Len(s) - 1)) \o FieldSubst(s[Len(s)])

\* s with every character substituted at once, extension rules
RECURSIVE SubstExt(_)
SubstExt(s) ==
    IF s = <<>> THEN <<>>
    ELSE SubstExt(SubSeq(s, 1, Len(s) - 1)) \o ExtSubst(s[Len(s)])

\* some header string of ev is empty
SomeHeaderEmpty(ev) == \E i \in DOMAIN HeaderNames : ev[HeaderNames[i]] = <<>>

\* keys is strictly ascending in byte order
Ascending(keys) ==
    \A i \in 1..(Len(keys) - 1) : StrLess(keys[i], keys[i + 1])

\* the number of pipes of s that do not follow an escaping backslash
RECURSIVE FieldSeparators(_)
FieldSeparators(s) ==
    IF s = <<>> THEN 0
    ELSE IF Head(s) = BS THEN FieldSeparators(SubSeq(s, 3, Len(s)))
    ELSE (IF Head(s) = PIPE THEN 1 ELSE 0) + FieldSeparators(Tail(s))

\* the raw keys of ext in ascending order of their escaped form
RawKeysByEscaped(ext) ==
    CHOOSE o \in IterOrders(ext) :
        \A i \in 1..(Len(o) - 1) :
            \/ StrLess(SubstExt(o[i]), SubstExt(o[i + 1]))
            \/ SubstExt(o[i]) = SubstExt(o[i + 1])

\* the extension segment of the wire format for the raw map ext
ExtensionSegment(ext) ==
    LET o == RawKeysByEscaped(ext)
    IN Join([i \in DOMAIN o |-> SubstExt(o[i]) \o <<EQ>> \o SubstExt(ext[o[i]])],
            <<SP>>)

\* the header of the wire format for the raw record ev, up to the severity
HeaderSegment(ev) ==
    <<"C", "E", "F", ":">> \o FormatInt(ev.Version) \o <<PIPE>>
    \o Join([i \in DOMAIN HeaderNames |-> SubstField(ev[HeaderNames[i]])],
            <<PIPE>>)

-----------------------------------------------------------------------------
(* The properties.                                                         *)

\* C1: when one of the six header strings of the record is empty, String()
\* returns an error and the empty string, never a partial line.
C1_MissingFieldFails ==
    (op = "String" /\ SomeHeaderEmpty(pre))
        => (ret.err # nil /\ ret.str = <<>>)

C1_Witness == op = "String" /\ pre.Severity = <<>> /\ ret.err # nil

\* C2: Validate() returns nil exactly when the six header strings are all
\* non-empty, whatever the Version is, zero included.
C2_ValidateIffAllSet ==
    op = "Validate" => ((ret.err = nil) <=> ~SomeHeaderEmpty(pre))

C2_Witness ==
    op = "Validate" /\ pre.Version = 0 /\ ~SomeHeaderEmpty(pre) /\ ret.err = nil

\* C3: in a line returned by String() the extension keys are written in
\* strictly ascending byte order of the escaped key, whatever the order in
\* which the map was iterated.
C3_KeysAscending ==
    StringSucceeded =>
        /\ Ascending(ret.keys)
        /\ Len(ret.keys) = Cardinality(DOMAIN pre.Extensions)
        /\ Range(ret.keys) = {SubstExt(k) : k \in DOMAIN pre.Extensions}

C3_Witness ==
    StringSucceeded /\ Len(ret.keys) = 2 /\ ret.order # ret.keys

\* C4: two successive encodings of the same record, by String() or Log(),
\* give the same line.
C4_SameLineTwice ==
    (/\ op \in {"String", "Log"}
     /\ prev.op \in {"String", "Log"}
     /\ ret.err = nil
     /\ prev.err = nil)
        => ret.encoded = prev.encoded

\* C5: after a successful String() the six header strings and the extension
\* pairs of the record are what they were before the call.
C5_StringLeavesRecord ==
    StringSucceeded =>
        /\ \A i \in DOMAIN HeaderNames : event[HeaderNames[i]] = pre[HeaderNames[i]]
        /\ event.Extensions = pre.Extensions

\* C6: the line returned by String() is CEF: and the decimal Version, then
\* the six header strings each escaped once, then the extension segment, with
\* one pipe between consecutive items; with an empty extension map the line
\* ends with the pipe that follows the severity.
C6_LineLayout ==
    StringSucceeded =>
        /\ ret.str = HeaderSegment(pre) \o <<PIPE>> \o ret.ext
        /\ pre.Extensions = EmptyMap => ret.str = HeaderSegment(pre) \o <<PIPE>>

C6_Witness ==
    /\ StringSucceeded
    /\ pre.Extensions = EmptyMap
    /\ PIPE \in Range(pre.DeviceVendor)

C8_SevenSeparators ==
    StringSucceeded => FieldSeparators(ret.str) = 7

\* no key and no value of ext contains a pipe
NoPipeInExtensions(ext) ==
    \A k \in DOMAIN ext : PIPE \notin Range(k) /\ PIPE \notin Range(ext[k])

\* C8 as amended: a line returned by String() for a record whose extension
\* keys and values contain no pipe has exactly seven pipes that are not
\* escaped, also when header strings contain a pipe.
C8_SevenSeparatorsNoExtPipe ==
    (StringSucceeded /\ NoPipeInExtensions(pre.Extensions))
        => FieldSeparators(ret.str) = 7

C8_Witness ==
    /\ StringSucceeded
    /\ pre.Extensions # EmptyMap
    /\ NoPipeInExtensions(pre.Extensions)
    /\ PIPE \in Range(pre.Name)

\* C9: cefEscapeField returns, for every input, the concatenation character
\* by character of \\ for a backslash, \| for a pipe, \n for a newline and the
\* character itself otherwise; the empty string maps to itself.
C9_EscapeFieldSimultaneous ==
    escFn = "cefEscapeField" =>
        /\ escOut = SubstField(escIn)
        /\ escIn = <<>> => escOut = <<>>

C9_Witness ==
    /\ escFn = "cefEscapeField"
    /\ {BS, PIPE, NL} \subseteq Range(escIn)
    /\ Len(escOut) = 2 * Len(escIn)

\* C10: cefEscapeExtension returns, for every input, the concatenation
\* character by character of \\ for a backslash, \n for a newline, \= for an
\* equals sign and the character itself otherwise, the pipe included.
C10_EscapeExtensionSimultaneous ==
    escFn = "cefEscapeExtension" =>
        /\ escOut = SubstExt(escIn)
        /\ \A i \in DOMAIN escIn :
              escIn[i] = PIPE => Len(escOut) < 2 * Len(escIn)

C10_Witness ==
    /\ escFn = "cefEscapeExtension"
    /\ {BS, PIPE, EQ} \subseteq Range(escIn)
    /\ escOut = <<BS, BS, PIPE, BS, EQ>>

\* the last call was a Read() that returned a record and no error
ReadSucceeded == op = "Read" /\ ~ret.panic /\ ret.err = nil

\* the text of a line after its first four characters
AfterPrefix(eventLine) == SubSeq(eventLine, 5, Len(eventLine))

\* the segments of a line that starts with CEF:
Segments(eventLine) == Split(AfterPrefix(eventLine), PIPE)

\* s writes a base-10 integer: decimal digits, after a sign or without one
IsInteger(s) ==
    LET digits == IF s # <<>> /\ s[1] \in {"+", "-"} THEN Tail(s) ELSE s
    IN /\ digits # <<>>
       /\ \A i \in DOMAIN digits :
             digits[i] \in {"0", "1", "2", "3", "4", "5", "6", "7", "8", "9"}

\* the line starts with CEF: and its first segment writes an integer
HasIntegerVersion(eventLine) ==
    /\ HasPrefix(eventLine, <<"C", "E", "F", ":">>)
    /\ IsInteger(Segments(eventLine)[1])

\* C11 as stated: Read never panics, whatever the line is, lines of fewer
\* than eight segments included: it returns a record and an error value.
C11_ReadNeverPanics == op = "Read" => ~ret.panic

\* C12: for a line that does not start with CEF:, Read returns an error and
\* the zero record.
C12_NoPrefixFails ==
    (op = "Read" /\ ~HasPrefix(ret.line, <<"C", "E", "F", ":">>))
        => (~ret.panic /\ ret.err # nil /\ ret.rec = ZeroEvent)

C12_Witness ==
    /\ op = "Read"
    /\ ret.line = Join(PlainSegments, <<PIPE>>)
    /\ ret.err # nil

\* C13: for a line that starts with CEF: and whose first segment is no
\* base-10 integer, Read returns an error and the zero record, and it stops
\* before it looks at a header or extension segment: the receiver is left as
\* it was, and a line with no further segment fails in the same way.
C13_BadVersionFails ==
    (/\ op = "Read"
     /\ HasPrefix(ret.line, <<"C", "E", "F", ":">>)
     /\ ~IsInteger(Segments(ret.line)[1]))
        => /\ ~ret.panic
           /\ ret.err # nil
           /\ ret.rec = ZeroEvent
           /\ ret.parsed = EmptyMap
           /\ event = pre

C13_Witness ==
    /\ op = "Read"
    /\ ret.line = <<"C", "E", "F", ":">>
    /\ pre # ZeroEvent
    /\ ret.err # nil

\* C14 as stated: for a line that starts with CEF: and an integer version
\* and in which one of the segments 2 to 7 is empty, Read returns an error
\* and the zero record.
C14_EmptyHeaderFails ==
    (/\ op = "Read"
     /\ HasIntegerVersion(ret.line)
     /\ \E i \in 2..7 :
           i <= Len(Segments(ret.line)) /\ Segments(ret.line)[i] = <<>>)
        => (~ret.panic /\ ret.err # nil /\ ret.rec = ZeroEvent)

\* the last call was a Read() of the line that the String() before it had
\* returned
ReadBack ==
    /\ op = "Read"
    /\ prev.op = "String"
    /\ prev.err = nil
    /\ ret.line = prev.encoded

\* C15 as stated: for a valid record R, Read of the line that String()
\* returned for R succeeds, and each of the six header strings it returns is
\* cefEscapeField of the header string of R as R was handed to String().
C15_RoundTripEscaped ==
    ReadBack =>
        /\ ReadSucceeded
        /\ \A i \in DOMAIN HeaderNames :
              ret.rec[HeaderNames[i]] = SubstField(prev.pre[HeaderNames[i]])

\* the last call was a String() on the record that the Read() before it had
\* returned
StringAfterRead == op = "String" /\ prev.op = "Read" /\ prev.err = nil

\* every token of the extension segment seg has at most one =
AtMostOneEq(seg) ==
    \A i \in DOMAIN Split(seg, SP) :
        Cardinality(Places(Split(seg, SP)[i], EQ)) <= 1

\* no field of the line needs escaping: no backslash, no newline, and no =
\* within a key or a value of the extension segment
LineNeedsNoEscape(eventLine) ==
    /\ BS \notin Range(eventLine)
    /\ NL \notin Range(eventLine)
    /\ AtMostOneEq(Segments(eventLine)[8])

\* C16 as stated: for a line L that Read accepts and whose fields hold no
\* character that needs escaping, String() on the record that Read(L)
\* returned gives L again.
C16_ReadThenString ==
    (StringAfterRead /\ LineNeedsNoEscape(prev.line))
        => (ret.err = nil /\ ret.str = prev.line)

\* s is what an integer is formatted to: 0, or digits that do not start with
\* 0, after a minus sign or without one
IsCanonicalInteger(s) ==
    LET digits == IF s # <<>> /\ s[1] = "-" THEN Tail(s) ELSE s
    IN /\ IsInteger(s)
       /\ s[1] # "+"
       /\ digits[1] = "0" => s = <<"0">>

\* the keys of the tokens of an extension segment, in the order of the tokens
TokenKeys(seg) ==
    [i \in DOMAIN Split(seg, SP) |-> SplitN(Split(seg, SP)[i], EQ)[1]]

\* the extension segment is empty, or it is key=value tokens with one = each,
\* single spaces between them and the keys strictly ascending
IsCanonicalExtensions(seg) ==
    \/ seg = <<>>
    \/ /\ \A i \in DOMAIN Split(seg, SP) :
             Cardinality(Places(Split(seg, SP)[i], EQ)) = 1
       /\ Ascending(TokenKeys(seg))

\* the line is in the form String() writes: eight segments, the version as
\* an integer is formatted, no backslash and no newline, and the extension
\* segment in canonical form
IsCanonicalLine(eventLine) ==
    /\ Len(Segments(eventLine)) = 8
    /\ IsCanonicalInteger(Segments(eventLine)[1])
    /\ BS \notin Range(eventLine)
    /\ NL \notin Range(eventLine)
    /\ IsCanonicalExtensions(Segments(eventLine)[8])

\* C16 as amended: for a line L that Read accepts, that has exactly eight
\* segments, a version written as an integer is formatted, no backslash and
\* no newline, and an extension segment that is empty or made of key=value
\* tokens with one = each, single spaces between them and strictly ascending
\* keys, String() on the record that Read(L) returned gives L again.
C16_CanonicalLineReproduced ==
    (StringAfterRead /\ IsCanonicalLine(prev.line))
        => (ret.err = nil /\ ret.str = prev.line)

C16_Witness ==
    /\ StringAfterRead
    /\ Segments(prev.line)[8] = <<"a", EQ, "a", SP, "n", EQ, "a">>
    /\ ret.order = <<<<"n">>, <<"a">>>>
    /\ ret.str = prev.line

\* no header string and no extension key or value of ev holds a character
\* that needs escaping
NeedsNoEscape(ev) ==
    /\ \A i \in DOMAIN HeaderNames :
          Range(ev[HeaderNames[i]]) \cap {BS, NL, PIPE} = {}
    /\ \A k \in DOMAIN ev.Extensions :
          (Range(k) \cup Range(ev.Extensions[k])) \cap {BS, NL, EQ} = {}

\* C17 as stated: for a valid record R whose header strings and extension
\* keys and values hold no character that needs escaping, Read of the line
\* that String() returned for R returns a record equal to R: the same
\* Version, the same six header strings and the same extension pairs.
C17_RoundTripPlain ==
    (ReadBack /\ NeedsNoEscape(prev.pre))
        => (ReadSucceeded /\ ret.rec = prev.pre)

\* no extension key and no extension value of ev holds a space or a pipe
NoSpaceOrPipeInExtensions(ev) ==
    \A k \in DOMAIN ev.Extensions :
        (Range(k) \cup Range(ev.Extensions[k])) \cap {SP, PIPE} = {}

\* C17 as amended: for a valid record R whose header strings and extension
\* keys and values hold no character that needs escaping, and whose extension
\* keys and values hold no white space and no pipe either, Read of the line
\* that String() returned for R returns a record equal to R: the same
\* Version, the same six header strings and the same extension pairs.
C17_RoundTripPlainNoSpace ==
    (ReadBack /\ NeedsNoEscape(prev.pre) /\ NoSpaceOrPipeInExtensions(prev.pre))
        => (ReadSucceeded /\ ret.rec = prev.pre)

C17_Witness ==
    /\ ReadBack
    /\ ReadSucceeded
    /\ prev.pre.Version = -1
    /\ Cardinality(DOMAIN prev.pre.Extensions) = 2
    /\ ret.rec = prev.pre

\* the places of the tokens of seg that hold an =
Keyed(seg) ==
    {i \in DOMAIN Split(seg, SP) : EQ \in Range(Split(seg, SP)[i])}

\* the text of token t before its first =
KeyOf(t) == SubSeq(t, 1, Min(Places(t, EQ)) - 1)

\* the text of token t after its first =
ValueOf(t) == SubSeq(t, Min(Places(t, EQ)) + 1, Len(t))

\* the largest member of a non-empty set of numbers
Max(S) == CHOOSE i \in S : \A j \in S : j <= i

\* the map that the extension segment seg stands for: one entry for each key
\* of a token with an =, with the value of the last such token
TokenMap(seg) ==
    LET tokens == Split(seg, SP)
        keyed == {i \in DOMAIN tokens : EQ \in Range(tokens[i])}
    IN [k \in {KeyOf(tokens[i]) : i \in keyed} |->
           ValueOf(tokens[Max({i \in keyed : KeyOf(tokens[i]) = k})])]

\* the map m with every key and every value escaped, extension rules
EscapedMap(m) ==
    [e \in {SubstExt(k) : k \in DOMAIN m} |->
        SubstExt(m[CHOOSE k \in DOMAIN m : SubstExt(k) = e])]

\* C18: for a line with CEF:, an integer version and eight segments or more,
\* Read builds the extension map from the eighth segment: it splits it at
\* every single space and each token at its first = only; a token with no =
\* gives no entry and does not make Read fail; of several tokens with the
\* same key the last one gives the value.
C18_ExtensionTokens ==
    (op = "Read" /\ HasPrefix(ret.line, <<"C", "E", "F", ":">>)) =>
        \A segs \in {Segments(ret.line)} :
            (IsInteger(segs[1]) /\ Len(segs) >= 8)
                => /\ ~ret.panic
                   /\ ret.parsed = TokenMap(segs[8])
                   /\ (ret.err = nil) <=> (\A i \in 2..7 : segs[i] # <<>>)
                   /\ ret.err = nil
                         => ret.rec.Extensions = EscapedMap(ret.parsed)

C18_Witness ==
    /\ ReadSucceeded
    /\ Segments(ret.line)[8] = <<"a", EQ, "a", SP, "a", EQ, "n">>
    /\ ret.rec.Extensions = MapPut(EmptyMap, <<"a">>, <<"n">>)

\* the lines String() can return for ev, over the iteration orders
StringLines(ev) ==
    UNION {{String(ev, order1, order2).ret.str :
               order2 \in IterOrders(escapeEventData(ev, order1).Extensions)} :
           order1 \in IterOrders(ev.Extensions)}

\* the last call was a Log() and the first call on the record
LogOnItsOwn == op = "Log" /\ calls = 1

\* C19 as stated: Log() returns an error exactly when String() on the same
\* record fails; run on its own, a successful Log() writes exactly the
\* encoded line to standard output, and a failing Log() writes only the
\* failure notice, to standard error.
C19_LogWritesLine ==
    LogOnItsOwn =>
        /\ (ret.err # nil) <=> SomeHeaderEmpty(pre)
        /\ ret.err = nil =>
              /\ \E l \in StringLines(pre) : stdout = <<l>>
              /\ stderr = <<>>
        /\ ret.err # nil =>
              /\ stdout = <<>>
              /\ stderr = <<<<ErrLog>>>>

\* C19 as amended: Log() returns an error exactly when String() on the same
\* record fails; run on its own, a successful Log() writes one entry of the
\* standard logger to standard output, which is the logger's date and time,
\* the encoded line and a newline, and a failing Log() writes one such entry
\* with the failure notice to standard error, and nothing else is written.
C19_LogWritesEntry ==
    LogOnItsOwn =>
        /\ (ret.err # nil) <=> SomeHeaderEmpty(pre)
        /\ ret.err = nil =>
              /\ \E l \in StringLines(pre) :
                    stdout = <<<<"<date time> ">> \o l \o <<NL>>>>
              /\ stderr = <<>>
              /\ logOutput = "Stdout"
        /\ ret.err # nil =>
              /\ stdout = <<>>
              /\ stderr = <<<<"<date time> ", ErrLog, NL>>>>
              /\ logOutput = "Stderr"

C19_Witness ==
    /\ LogOnItsOwn
    /\ ret.err = nil
    /\ pre.Extensions # EmptyMap
    /\ Len(stdout) = 1
    /\ stderr = <<>>

\* C20 as stated: in every line String() returns the version segment is an
\* unsigned decimal integer: digits only, no sign, and no leading zero unless
\* the segment is 0.
C20_VersionUnsigned ==
    StringSucceeded =>
        /\ IsCanonicalInteger(Segments(ret.str)[1])
        /\ Segments(ret.str)[1][1] # "-"

\* C21: Read keeps no state between calls: what it returns for a line is
\* what it returns for that line on a new record, whatever the receiver held
\* before and whatever the iteration order; it panics on a new record exactly
\* when it panics on the receiver.
C21_ReadDependsOnLine ==
    op = "Read" =>
        \A order \in ReadOrders(ret.line) :
            \A new \in {Read(ZeroEvent, ret.line, order).ret} :
                /\ ret.rec = new.rec
                /\ ret.err = new.err
                /\ ret.panic = new.panic

C21_Witness ==
    /\ ReadSucceeded
    /\ pre.Name = <<"n">>
    /\ pre.Extensions # EmptyMap
    /\ ret.rec.Name = <<"a">>
    /\ ret.rec.Extensions = EmptyMap

\* C22: in a record that Read returns with no error each of the six header
\* strings is cefEscapeField of the text between the pipes of the line, and
\* the extension pairs are cefEscapeExtension of the parts of the tokens: the
\* fields are escaped text, not the text of the line.
C22_DecodedFieldsEscaped ==
    ReadSucceeded =>
        \A segs \in {Segments(ret.line)} :
            /\ \A i \in DOMAIN HeaderNames :
                  ret.rec[HeaderNames[i]] = SubstField(segs[i + 1])
            /\ ret.rec.Extensions = EscapedMap(TokenMap(segs[8]))
            /\ event = ret.rec

C22_Witness ==
    /\ ReadSucceeded
    /\ Segments(ret.line)[2] = <<BS>>
    /\ ret.rec.DeviceVendor = <<BS, BS>>
    /\ ret.rec.DeviceVendor # Segments(ret.line)[2]

\* C23: a record that Read returned is escaped again by String(): for a line
\* that Read accepts and that has a backslash in a header segment t, the line
\* String() returns has cefEscapeField(cefEscapeField(t)) in the place of t,
\* which is longer than t, so it is another line; and from the second cycle of
\* Read and String on, every line is longer than the line before.
C23_DoubleEscaped ==
    (/\ StringAfterRead
     /\ \E i \in 2..7 : BS \in Range(Segments(prev.line)[i]))
        => /\ ret.err = nil
           /\ \A i \in 2..7 :
                 BS \in Range(Segments(prev.line)[i]) =>
                    /\ Segments(ret.str)[i] =
                           SubstField(SubstField(Segments(prev.line)[i]))
                    /\ Len(Segments(ret.str)[i]) > Len(Segments(prev.line)[i])
           /\ ret.str # prev.line
           /\ calls > 2 => Len(ret.str) > Len(prev.line)

C23_Witness ==
    /\ StringAfterRead
    /\ calls = 4
    /\ lines = {CefLine([PlainSegments EXCEPT ![6] = <<BS>>])}
    /\ Len(Segments(ret.str)[6]) = 16
    /\ Len(ret.str) = Len(prev.line) + 12

\* the text of a line after its seventh pipe
AfterSeventhPipe(eventLine) ==
    Join(SubSeq(Segments(eventLine), 8, Len(Segments(eventLine))), <<PIPE>>)

\* C24 as stated: Read takes all the text after the seventh pipe for the
\* extension segment: every key=value token of it gives an entry of the map
\* Read parses, also when that text holds a pipe.
C24_TrailingExtensionSegment ==
    ReadSucceeded => ret.parsed = TokenMap(AfterSeventhPipe(ret.line))

\* C25 as stated: when two Log() calls on two records run at the same time
\* and one encoding succeeds and the other fails, then in every interleaving
\* the encoded line is written to standard output and the failure notice to
\* standard error.
C25_ConcurrentLogStreams ==
    \A p, q \in DOMAIN procs :
        (/\ procs[p].pc = "done"
         /\ procs[q].pc = "done"
         /\ procs[p].err = nil
         /\ procs[q].err # nil)
            => /\ stdout = <<procs[p].written>>
               /\ stderr = <<procs[q].written>>

\* C26: when String() or Build() fails validation, the record is left as it
\* was: no header string is escaped and the extension map is not replaced.
C26_FailedEncodeLeavesRecord ==
    (op \in {"String", "Build"} /\ ret.err # nil) => event = pre

C26_Witness ==
    /\ op = "Build"
    /\ ret.err # nil
    /\ pre.DeviceVendor = <<PIPE>>
    /\ event.DeviceVendor = <<PIPE>>
    /\ DOMAIN event.Extensions = {<<PIPE>>}

\* C27 as stated: when Read returns an error, for a missing prefix, a bad
\* version or a missing mandatory field, the Version, the header strings and
\* the extensions of the receiver are what they were before the call.
C27_FailedReadLeavesReceiver ==
    (op = "Read" /\ ~ret.panic /\ ret.err # nil) => event = pre

\* the text that s is the escaped form of, extension rules: after a backslash
\* the next character tells what was escaped
RECURSIVE UnescapeExtension(_)
UnescapeExtension(s) ==
    IF s = <<>> THEN <<>>
    ELSE IF s[1] = BS /\ Len(s) >= 2
    THEN <<(IF s[2] = "n" THEN NL ELSE s[2])>>
         \o UnescapeExtension(SubSeq(s, 3, Len(s)))
    ELSE <<s[1]>> \o UnescapeExtension(Tail(s))

\* C28: cefEscapeExtension is injective: its input can be told from its
\* output. So escapeEventData merges no entries: the map it builds has as
\* many entries as the map it was given, one for each key, also when one key
\* is the escaped form of another.
C28_EscapingKeepsEntries ==
    /\ escFn = "cefEscapeExtension" => UnescapeExtension(escOut) = escIn
    /\ escFn = "escapeEventData" =>
          /\ Cardinality(DOMAIN event.Extensions) =
                 Cardinality(DOMAIN pre.Extensions)
          /\ \A k \in DOMAIN pre.Extensions :
                /\ SubstExt(k) \in DOMAIN event.Extensions
                /\ event.Extensions[SubstExt(k)] = SubstExt(pre.Extensions[k])

C28_Witness ==
    /\ escFn = "escapeEventData"
    /\ escIn = <<NL>>
    /\ DOMAIN pre.Extensions = {<<NL>>, <<BS, "n">>}
    /\ DOMAIN event.Extensions = {<<BS, "n">>, <<BS, BS, "n">>}

\* C29: no call of String, Build, Read, Log or Validate changes the entries
\* of a map object that exists already: the map the caller supplied, which
\* copies of the record share, keeps its pairs over every sequence of calls.
C29_MapObjectsKept ==
    [][\A i \in DOMAIN heap.objects :
          /\ i \in DOMAIN heap'.objects
          /\ heap'.objects[i] = heap.objects[i]]_vars

C29_Witness ==
    /\ op = "Read"
    /\ prev.op = "String"
    /\ ret.err = nil
    /\ Len(heap.objects) = 4
    /\ heap.objects[1] = MapPut(EmptyMap, <<EQ>>, <<EQ>>)
    /\ heap.objects[1] # heap.objects[2]
    /\ heap.objects[heap.ref] = event.Extensions

\* C30: in the codec with the string Version, Generate() returns an error
\* and the empty string exactly when one of the seven strings of the record,
\* the Version included, is empty; otherwise it returns a line and no error.
C30_GenerateIffAllSet ==
    op = "Generate" =>
        IF \E f \in StringFieldNames : pre[f] = <<>>
        THEN ret.err # nil /\ ret.str = <<>>
        ELSE ret.err = nil /\ ret.str # <<>>

C30_Witness ==
    /\ op = "Generate"
    /\ pre.Version = <<>>
    /\ pre.Severity # <<>>
    /\ pre.Extensions # EmptyMap
    /\ ret.err # nil
    /\ ret.str = <<>>

====
